---- MODULE Spec2Model ----
(***************************************************************************)
(* Model of src/src/pyket.cpp: the PyKet session wrapper around the ket    *)
(* engine's lifecycle entry points ket_init_new / ket_init_free, and the   *)
(* argument marshalling done by str_copy and the PyKet constructor.        *)
(***************************************************************************)
EXTENDS Integers, Sequences, FiniteSets, TLC

\* ---------------------------------------------------------------- bounds
MaxSessions == 2      \* session objects the host creates
MaxArgs     == 2      \* longest argv handed to a constructor
MaxStrLen   == 2      \* longest std::string inside an argv of SpecArgs
MaxCopyLen  == 4      \* longest std::string handed to str_copy on its own

\* ------------------------------------------------------------- constants
NUL      == 0         \* the '\0' written by str_copy
WordBase == 65536     \* 2^16: a size_t / int is written as 16-bit words
IntSign  == 32768     \* 2^15: high word of an int with the sign bit set

Byte     == {NUL, 1, 2}        \* char values: NUL and two distinct others
ArgByte  == {NUL, 1}           \* char values used inside constructor argv
Uninit   == -1                 \* content of a char that was never written

VARIABLES
    status,     \* per session object: uninitialized / active / finalized / failed
    used,       \* per session object: how the host's use of it went
    raised,     \* per session object: what the constructor threw, if anything
    heap,       \* every char[] block obtained with new[] and not deleted
    trace,      \* calls received by the engine, in order
    hostLog,    \* constructor / destructor invocations made by the host, in order
    str, ptr,   \* str_copy on its own: the argument and the returned block
    size, conv  \* int conversion on its own: vector size and what came of it

vars == <<status, used, raised, heap, trace, hostLog, str, ptr, size, conv>>

Sessions == 1..MaxSessions

RECURSIVE SeqsUpTo(_, _)
SeqsUpTo(S, n) ==
    IF n = 0 THEN {<<>>}
    ELSE LET shorter == SeqsUpTo(S, n - 1)
         IN  shorter \cup {Append(q, x) : q \in shorter, x \in S}

Strings  == SeqsUpTo(ArgByte, MaxStrLen)
Argvs    == SeqsUpTo(Strings, MaxArgs)          \* inputs of SpecArgs

\* inputs of Spec: no argument, a program name, a program name and a flag
LifecycleArgvs == {<<>>, <<(<<1>>)>>, <<(<<1>>), <<1, NUL>>>>}

\* ----------------------------------------------------------- str_copy
\* new char[n]: n chars, none of them written yet
NewCharArray(n) == [i \in 1..n |-> Uninit]

\* std::copy(first, last, out): element-wise, the whole range, in order
StdCopy(src, dst) ==
    [i \in 1..Len(dst) |-> IF i <= Len(src) THEN src[i] ELSE dst[i]]

\* a copy that stops at the first NUL of the source, as strcpy would
str_copy_strcpy(s) ==
    LET nuls == {i \in 1..Len(s) : s[i] = NUL}
        n    == IF nuls = {} THEN Len(s)
                ELSE (CHOOSE i \in nuls : \A j \in nuls : i <= j) - 1
    IN  [i \in 1..(n + 1) |-> IF i <= n THEN s[i] ELSE NUL]

str_copy(s) ==
    LET p0 == NewCharArray(Len(s) + 1)
        p1 == StdCopy(s, p0)
    IN  [p1 EXCEPT ![Len(s) + 1] = NUL]

\* ------------------------------------------------- size_t -> int (line 37)
\* A size_t is <<top, hi, lo>>: bits 32.., bits 16..31, bits 0..15.
SizeOf(v) == <<0, Len(v) \div WordBase, Len(v) % WordBase>>

\* the conversion keeps the low 32 bits and reads them as two's complement
ToInt_short(sz) ==
    IF sz[3] >= IntSign THEN sz[3] - WordBase ELSE sz[3]

ToInt(sz) ==
    IF sz[2] >= IntSign THEN (sz[2] - WordBase) * WordBase + sz[3]
    ELSE sz[2] * WordBase + sz[3]

FitsInt(sz) == sz[1] = 0 /\ sz[2] < IntSign

\* number of iterations of  for (int i = 0; i < argc; i++)
LoopCount(argc) == IF argc > 0 THEN argc ELSE 0

\* declared length of the variable-length array  char* c_argv[argc]
ArrayLen(argc) == argc

\* c_argv after the loop has filled its first n entries with the addresses
\* of the blocks base+1 .. base+n
CArgv_reversed(argc, n, base) ==
    [i \in 1..ArrayLen(argc) |-> IF i <= n THEN base + (n + 1 - i) ELSE Uninit]

CArgv(argc, n, base) ==
    [i \in 1..ArrayLen(argc) |-> IF i <= n THEN base + i ELSE Uninit]

\* ------------------------------------------------------- engine calls
InitCall(s, argc, c_argv, ok) ==
    [call |-> "ket_init_new", session |-> s, argc |-> argc, argv |-> c_argv,
     ok |-> ok]

FreeCall(s) == [call |-> "ket_init_free", session |-> s]

\* calls the constructor makes, given how many of the copies were allocated
CtorCalls_skipEmpty(s, argc, c_argv, made, ok) ==
    IF made < LoopCount(argc) \/ argc = 0 THEN <<>>
    ELSE <<InitCall(s, argc, c_argv, ok)>>

CtorCalls_beforeCopies(s, argc, c_argv, made, ok) ==
    <<InitCall(s, argc, c_argv, ok)>>

CtorCalls_twice(s, argc, c_argv, made, ok) ==
    IF made < LoopCount(argc) THEN <<>>
    ELSE <<InitCall(s, argc, c_argv, ok), InitCall(s, argc, c_argv, ok)>>

CtorCalls(s, argc, c_argv, made, ok) ==
    IF made < LoopCount(argc) THEN <<>>
    ELSE <<InitCall(s, argc, c_argv, ok)>>

\* calls the destructor makes
DtorCalls_twice(s) == <<FreeCall(s), FreeCall(s)>>

DtorCalls_none(s) == <<>>

DtorCalls_unlessError(s) == IF used[s] = "error" THEN <<>> ELSE <<FreeCall(s)>>

DtorCalls(s) == <<FreeCall(s)>>

\* ------------------------------------------------------------ actions
SessionIdle ==
    /\ status  = [s \in Sessions |-> "uninitialized"]
    /\ used    = [s \in Sessions |-> "none"]
    /\ raised  = [s \in Sessions |-> "none"]
    /\ heap    = <<>>
    /\ trace   = <<>>
    /\ hostLog = <<>>

CopyIdle == str = <<>> /\ ptr = <<>>

ConvIdle == size = <<0, 0, 0>> /\ conv = [state |-> "none"]

\* PyKet::PyKet(argv).  made: copies allocated before operator new[] throws
\* (all of them when it does not); ok: whether ket_init_new returns.
Construct(s, argv, made, ok) ==
    /\ status[s] = "uninitialized"
    /\ \A r \in Sessions : r < s => status[r] # "uninitialized"
    /\ LET argc   == ToInt(SizeOf(argv))
           n      == LoopCount(argc)
           blocks == [i \in 1..made |-> [owner |-> s, data |-> str_copy(argv[i])]]
           c_argv == CArgv(argc, made, Len(heap))
           calls  == CtorCalls(s, argc, c_argv, made, ok)
       IN  /\ made \in 0..n
           /\ heap' = heap \o blocks
           /\ trace' = trace \o calls
           /\ hostLog' = Append(hostLog,
                                [op |-> "construct", session |-> s, argv |-> argv])
           /\ raised' = [raised EXCEPT ![s] =
                            IF made < n THEN "bad_alloc"
                            ELSE IF ok THEN "none" ELSE "engine"]
           /\ status' = [status EXCEPT ![s] =
                            IF made = n /\ ok THEN "active" ELSE "aborted"]
    /\ UNCHANGED <<used, str, ptr, size, conv>>

\* the constructor of a not yet constructed object s, on any argv of argvs
ConstructAny(s, argvs) ==
    /\ status[s] = "uninitialized"
    /\ \E argv \in argvs : \E made \in 0..Len(argv), ok \in BOOLEAN :
          Construct(s, argv, made, ok)

\* the host uses the session between construction and destruction
Use(s, ok) ==
    /\ status[s] = "active"
    /\ used[s] # "error"
    /\ used' = [used EXCEPT ![s] = IF ok THEN "ok" ELSE "error"]
    /\ UNCHANGED <<status, raised, heap, trace, hostLog, str, ptr, size, conv>>

\* PyKet::~PyKet(): runs when the owning scope is left, however it is left
Destruct(s) ==
    /\ status[s] = "active"
    /\ trace' = trace \o DtorCalls(s)
    /\ hostLog' = Append(hostLog, [op |-> "destruct", session |-> s])
    /\ status' = [status EXCEPT ![s] = "finalized"]
    /\ UNCHANGED <<used, raised, heap, str, ptr, size, conv>>

Init == SessionIdle /\ CopyIdle /\ ConvIdle

Next ==
    \/ \E s \in Sessions : ConstructAny(s, LifecycleArgvs)
    \/ \E s \in Sessions, ok \in BOOLEAN : Use(s, ok)
    \/ \E s \in Sessions : Destruct(s)

Spec == Init /\ [][Next]_vars

\* one session, every argv up to the bounds
NextArgs ==
    \/ ConstructAny(1, Argvs)
    \/ \E ok \in BOOLEAN : Use(1, ok)
    \/ Destruct(1)

SpecArgs == Init /\ [][NextArgs]_vars

\* ------------------------------------------------- str_copy on its own
InitCopy ==
    /\ SessionIdle /\ ConvIdle
    /\ str \in SeqsUpTo(Byte, MaxCopyLen)
    /\ ptr = <<>>

CallStrCopy ==
    /\ ptr = <<>>
    /\ ptr' = str_copy(str)
    /\ UNCHANGED <<status, used, raised, heap, trace, hostLog, str, size, conv>>

NextCopy == CallStrCopy

SpecCopy == InitCopy /\ [][NextCopy]_vars

\* ------------------------------------- the constructor's counts on their own
\* vector sizes around the edges of the 16-bit words, of int and of 32 bits
SizeSamples ==
    {<<top, hi, lo>> : top \in {0, 1},
                       hi \in {0, 1, IntSign - 1, IntSign, WordBase - 1},
                       lo \in {0, 1, 2, IntSign - 1, IntSign, WordBase - 1}}

InitConv ==
    /\ SessionIdle /\ CopyIdle
    /\ size \in SizeSamples
    /\ conv = [state |-> "none"]

\* lines 37-41 for a vector of `size` elements, keeping only the counts.
\* A negative argc makes  char* c_argv[argc]  undefined: the call may die
\* there (crash) or go on to ket_init_new with the negative count.
ConstructSized(crash) ==
    /\ conv.state = "none"
    /\ LET argc == ToInt(size)
       IN  conv' = IF argc < 0 /\ crash
                   THEN [state |-> "crashed"]
                   ELSE [state |-> "called", argc |-> argc,
                         arrayLen |-> ArrayLen(argc),
                         copies |-> LoopCount(argc)]
    /\ UNCHANGED <<status, used, raised, heap, trace, hostLog, str, ptr, size>>

NextConv == \E crash \in BOOLEAN : ConstructSized(crash)

SpecConv == InitConv /\ [][NextConv]_vars

\* ============================================================ properties
TraceIdx(c, s) ==
    {k \in DOMAIN trace : trace[k].call = c /\ trace[k].session = s}

HostIdx(o, s) ==
    {k \in DOMAIN hostLog : hostLog[k].op = o /\ hostLog[k].session = s}

OkInits(s) == {k \in TraceIdx("ket_init_new", s) : trace[k].ok}

Constructed(s) == HostIdx("construct", s) # {}
Destructed(s)  == HostIdx("destruct", s) # {}

ArgvOf(s) == hostLog[CHOOSE k \in HostIdx("construct", s) : TRUE].argv

BlocksOf(s) == {k \in DOMAIN heap : heap[k].owner = s}

\* C1 (state part): per session, ket_init_new is called at most once and only
\* by its construction; ket_init_free is called at most once per successful
\* ket_init_new, only after it, and exactly once when the session is
\* finalized; an active session has its one successful ket_init_new and no
\* ket_init_free yet.
C1_Inv ==
    \A s \in Sessions :
        /\ Cardinality(TraceIdx("ket_init_new", s)) <= 1
        /\ TraceIdx("ket_init_new", s) # {} => Constructed(s)
        /\ Constructed(s) /\ raised[s] # "bad_alloc"
              => Cardinality(TraceIdx("ket_init_new", s)) = 1
        /\ Cardinality(TraceIdx("ket_init_free", s)) <= Cardinality(OkInits(s))
        /\ \A f \in TraceIdx("ket_init_free", s) : \E i \in OkInits(s) : i < f
        /\ status[s] = "active"
              => Cardinality(OkInits(s)) = 1 /\ TraceIdx("ket_init_free", s) = {}
        /\ status[s] = "finalized"
              => Cardinality(OkInits(s)) = 1
                 /\ Cardinality(TraceIdx("ket_init_free", s)) = 1

\* C1 (step part): a session only moves uninitialized -> active -> finalized
\* (or uninitialized -> aborted when construction throws); a finalized
\* session stays finalized, and ket_init_new is only ever called for a
\* session that was uninitialized.
C1_Step ==
    \A s \in Sessions :
        /\ status'[s] # status[s] =>
              <<status[s], status'[s]>> \in
                  {<<"uninitialized", "active">>, <<"uninitialized", "aborted">>,
                   <<"active", "finalized">>}
        /\ TraceIdx("ket_init_new", s)' # TraceIdx("ket_init_new", s)
              => status[s] = "uninitialized"

\* C1: over any sequence of construct / use / destruct steps the initializer
\* is called exactly once, at construction, the finalizer exactly once per
\* successful initializer call and never without one, and the session moves
\* only uninitialized -> active -> finalized, never back to active.
C1_Lifecycle == []C1_Inv /\ [][C1_Step]_vars

C1_Witness ==
    \E s \in Sessions :
        /\ status[s] = "finalized"
        /\ used[s] = "ok"
        /\ Cardinality(OkInits(s)) = 1
        /\ Cardinality(TraceIdx("ket_init_free", s)) = 1

\* a session whose construction (non-empty argv) is directly followed by its
\* destruction, with no use in between
ImmediatePair(s, k) ==
    /\ k \in DOMAIN hostLog /\ k + 1 \in DOMAIN hostLog
    /\ hostLog[k].op = "construct" /\ hostLog[k].session = s
    /\ hostLog[k].argv # <<>>
    /\ hostLog[k + 1].op = "destruct" /\ hostLog[k + 1].session = s
    /\ used[s] = "none"

\* C2: constructing a session from a non-empty argv and destroying it at once
\* gives the engine exactly one ket_init_new directly followed by exactly one
\* ket_init_free, with no other engine call in between.
C2_ConstructDestructTrace ==
    \A s \in Sessions : \A k \in DOMAIN hostLog :
        ImmediatePair(s, k) =>
            \E j \in DOMAIN trace :
                /\ TraceIdx("ket_init_new", s) = {j}
                /\ TraceIdx("ket_init_free", s) = {j + 1}

C2_Witness ==
    \E s \in Sessions : \E k \in DOMAIN hostLog :
        /\ ImmediatePair(s, k)
        /\ Len(hostLog[k].argv) = 2
        /\ \E j \in DOMAIN trace :
              /\ TraceIdx("ket_init_new", s) = {j}
              /\ TraceIdx("ket_init_free", s) = {j + 1}

\* C3: every destruction calls ket_init_free, exactly once and whatever
\* became of the use of the session before it: the step that runs the
\* destructor of s appends exactly the one call ket_init_free to the trace.
C3_DestructFinalizes ==
    [][ \A s \in Sessions :
          (~Destructed(s) /\ Destructed(s)') => trace' = Append(trace, FreeCall(s)) ]_vars

C3_Witness ==
    \E s \in Sessions :
        /\ Destructed(s)
        /\ used[s] = "error"
        /\ Cardinality(TraceIdx("ket_init_free", s)) = 1

\* the bytes the engine finds behind entry i of the array of call e
Pointee(e, i) == heap[e.argv[i]].data

\* C4: ket_init_new receives count = length of argv and an array of that
\* length whose i-th entry points to a copy of the bytes of argv[i], in order.
C4_ArgsMarshalled ==
    \A k \in DOMAIN trace :
        trace[k].call = "ket_init_new" =>
            LET e == trace[k]
                a == ArgvOf(e.session)
            IN  /\ e.argc = Len(a)
                /\ Len(e.argv) = Len(a)
                /\ \A i \in 1..Len(a) :
                      /\ e.argv[i] \in DOMAIN heap
                      /\ Len(Pointee(e, i)) >= Len(a[i])
                      /\ SubSeq(Pointee(e, i), 1, Len(a[i])) = a[i]

C4_Witness ==
    \E k \in DOMAIN trace :
        /\ trace[k].call = "ket_init_new"
        /\ trace[k].argc = 2
        /\ ArgvOf(trace[k].session) = <<(<<1>>), <<1, NUL>>>>
        /\ Pointee(trace[k], 1) = <<1, NUL>>
        /\ Pointee(trace[k], 2) = <<1, NUL, NUL>>

\* C5: the block str_copy returns has size(s)+1 bytes: the bytes of s in
\* order, NUL bytes inside s included, then one terminating NUL.
C5_StrCopyExact ==
    ptr # <<>> =>
        /\ Len(ptr) = Len(str) + 1
        /\ \A i \in 1..Len(str) : ptr[i] = str[i]
        /\ ptr[Len(str) + 1] = NUL

C5_Witness ==
    /\ str = <<1, NUL, 2, NUL>>
    /\ ptr = <<1, NUL, 2, NUL, NUL>>

\* C6: constructing from an empty argv calls ket_init_new exactly once, with
\* count 0 and an empty array, copies no string and does not throw here.
C6_EmptyArgv ==
    \A s \in Sessions :
        Constructed(s) /\ ArgvOf(s) = <<>> =>
            /\ raised[s] # "bad_alloc"
            /\ BlocksOf(s) = {}
            /\ \E k \in DOMAIN trace :
                  /\ TraceIdx("ket_init_new", s) = {k}
                  /\ trace[k].argc = 0
                  /\ trace[k].argv = <<>>

C6_Witness ==
    \E s \in Sessions :
        /\ Constructed(s) /\ ArgvOf(s) = <<>>
        /\ status[s] = "active"
        /\ Cardinality(TraceIdx("ket_init_new", s)) = 1

\* the engine calls made for sessions a and b, in order, as <<call, session>>
CallsOf(a, b) ==
    LET sel == SelectSeq(trace, LAMBDA e : e.session \in {a, b})
    IN  [i \in DOMAIN sel |-> <<sel[i].call, sel[i].session>>]

\* session a was destroyed before session b was constructed
InSequence(a, b) ==
    /\ Destructed(a) /\ Destructed(b)
    /\ \A i \in HostIdx("destruct", a) : \A j \in HostIdx("construct", b) : i < j

\* C7: two sessions with non-overlapping lifetimes give the engine
\* init, finalize, init, finalize: one pair each, the first session's
\* finalizer before the second session's initializer.
C7_SequentialSessions ==
    \A a \in Sessions : \A b \in Sessions :
        InSequence(a, b) =>
            CallsOf(a, b) = << <<"ket_init_new", a>>, <<"ket_init_free", a>>,
                               <<"ket_init_new", b>>, <<"ket_init_free", b>> >>

C7_Witness ==
    \E a \in Sessions : \E b \in Sessions :
        /\ InSequence(a, b)
        /\ Len(CallsOf(a, b)) = 4

\* C8: once a constructor has returned (or thrown), none of the string copies
\* it allocated is still allocated.
C8_NoRetention ==
    \A s \in Sessions : Constructed(s) => BlocksOf(s) = {}

\* C9: when the allocation of a copy fails, bad_alloc leaves the constructor,
\* ket_init_new has not been called, and no ket_init_free is ever made for
\* that session, which never became active.
C9_AllocFailure ==
    \A s \in Sessions :
        Constructed(s) /\ Cardinality(BlocksOf(s)) < Len(ArgvOf(s)) =>
            /\ raised[s] = "bad_alloc"
            /\ status[s] = "aborted"
            /\ TraceIdx("ket_init_new", s) = {}
            /\ TraceIdx("ket_init_free", s) = {}
            /\ ~Destructed(s)

C9_Witness ==
    \E s \in Sessions :
        /\ Constructed(s)
        /\ Len(ArgvOf(s)) = 2 /\ Cardinality(BlocksOf(s)) = 1
        /\ raised[s] = "bad_alloc"

\* the number a size_t stands for, when it is below 2^31
SizeValue(sz) == sz[2] * WordBase + sz[3]

\* C10: for a vector whose size fits a signed 32-bit int, the count handed to
\* ket_init_new equals the size and is not negative, and the array length and
\* the number of copies made equal that count.
C10_CountIsSize ==
    FitsInt(size) /\ conv.state # "none" =>
        /\ conv.state = "called"
        /\ conv.argc = SizeValue(size)
        /\ conv.argc >= 0
        /\ conv.arrayLen = conv.argc
        /\ conv.copies = conv.argc

C10_Witness ==
    /\ size = <<0, IntSign - 1, WordBase - 1>>
    /\ conv.state = "called"
    /\ conv.argc = 2147483647
    /\ conv.copies = 2147483647

====
